---- MODULE Spec2Model ----
(***************************************************************************)
(* Order lifecycle and simulated execution engine of Hyper-Alpha-Arena:    *)
(* backend/services/order_matching.py and paper_trading_engine.py.         *)
(*                                                                         *)
(* Numbers.  Money and prices are integers counting 1/10000 of a dollar    *)
(* ("pips"), quantities are integers counting whole units.  The inputs are *)
(* chosen so that every Decimal product of the code is an integer number   *)
(* of pips; a Decimal quotient (the SELL price after slippage, the average *)
(* cost) is rounded down to a pip, as Decimal rounds it at its 28th digit. *)
(* Every value has fewer than 15 significant digits, for which the code's  *)
(* float(Decimal(str(x))) round trips are exact.                           *)
(***************************************************************************)
EXTENDS Integers, Sequences, FiniteSets, TLC

\* ---------------------------------------------------------------- bounds
MaxOrders == 2

\* ------------------------------------------------------------- constants
\* database/models.py is not part of the sources: 0.1 % and $1 (spec 8).
CRYPTO_COMMISSION_RATE_DEN == 1000
CRYPTO_MIN_COMMISSION == 1

\* PaperTradingEngine class attributes
MIN_SLIPPAGE_BPS == 1
MAX_SLIPPAGE_BPS == 10
SLIPPAGE_SIZE_THRESHOLD == 10000
MAX_ORDER_VALUE_USD == 100000
PARTIAL_FILL_THRESHOLD_USD == 10000
MIN_PARTIAL_FILL_PCT == 50
MAX_PARTIAL_FILL_PCT == 90
\* _release_frozen_on_cancel: ref_price = 100.0 when the order has no price
DEFAULT_REF_PRICE == 100

Usd(d) == d * 10000
BpsBase == 100 * 100

\* ---------------------------------------------------------------- inputs
NoPrice == 0
PriceSet == {Usd(1), Usd(100)}
QtySet == {1, 200}
\* The accounts a run starts from: a small one that holds nothing, and a
\* large one with cash frozen and one unit of the symbol bought at $1.
AccountSet ==
    { [cash |-> Usd(2) + 2, frozen |-> 0, positions |-> <<>>],
      [cash |-> Usd(30000), frozen |-> Usd(3),
       positions |-> <<[quantity |-> 1, available_quantity |-> 1,
                        avg_cost |-> Usd(1)]>>] }
\* What a caller can pass to create_order: also no price (None, or 0.0) and
\* a quantity of zero.
PriceInputs == PriceSet \cup {NoPrice}
QtyInputs == QtySet \cup {0}
Sides == {"BUY", "SELL"}
OrderTypes == {"MARKET", "LIMIT"}
Faults == {"none", "before_commit", "after_commit"}

VARIABLES
    market_price,     \* get_last_price(symbol); NoPrice when it raises
    current_cash,     \* Account.current_cash
    frozen_cash,      \* Account.frozen_cash
    positions,        \* Position rows of (account, symbol, market), by id
    orders,           \* Order rows, by id
    trades,           \* Trade rows, by id
    last,             \* the last call and what it returned
    start,            \* the account as it was created
    cancel_true,      \* orders for which cancel_order has returned True
    released,         \* sum of the amounts the calls asked to release
    deferred,         \* orders whose settlement found funds or position short
    sess,             \* in-flight check_and_execute_order calls, by session
    sim_call,         \* a simulate_order_execution call: arguments and result
    hl,               \* the Hyperliquid settings of the account and its snapshots
    manager,          \* StrategyManager.running and .refresh_thread
    refresh_threads,  \* every refresh thread start() has spawned
    states,           \* every StrategyState object _load_strategies has made
    strategies,       \* StrategyManager.strategies[account_id]: an object, or 0
    handlers,         \* in-flight handle_price_update calls, by thread
    now,              \* the time of the next price event
    started,          \* the trading calls _execute_strategy has started
    strategy_db,      \* the AccountStrategyConfig and Account rows
    sweep_tick,       \* flips with every periodic process_all_pending_orders
    pools,            \* SamplingPool.pools[symbol]: the deque, if it exists
    max_samples_per_symbol, \* SamplingPool.max_samples_per_symbol[symbol], 0 if unset
    last_sample_time, \* SamplingPool.last_sample_time[symbol], 0 if unset
    pool_last,        \* the last SamplingPool call and its outcome
    tasks,            \* KlineCollectionTask rows, by id
    workers           \* in-flight process_task calls

strategy_vars == <<manager, refresh_threads, states, strategies, handlers, now,
                   started, strategy_db>>

pool_vars == <<pools, max_samples_per_symbol, last_sample_time, pool_last>>

backfill_vars == <<tasks, workers>>

services == <<strategy_vars, sweep_tick, pool_vars, backfill_vars>>

trading_vars == <<market_price, current_cash, frozen_cash, positions, orders,
                  trades, last, start, cancel_true, released, deferred, sess,
                  sim_call, hl>>

vars == <<trading_vars, services>>

other_than_strategy == <<trading_vars, sweep_tick, pool_vars, backfill_vars>>
other_than_pool == <<trading_vars, strategy_vars, sweep_tick, backfill_vars>>
other_than_backfill == <<trading_vars, strategy_vars, sweep_tick, pool_vars>>

db == <<current_cash, frozen_cash, positions, orders, trades>>

Max(a, b) == IF a >= b THEN a ELSE b
Min(a, b) == IF a <= b THEN a ELSE b

\* ------------------------------------------------------------ commission
_calc_commission(notional) ==
    IF notional >= Usd(CRYPTO_MIN_COMMISSION) * CRYPTO_COMMISSION_RATE_DEN
    THEN notional \div CRYPTO_COMMISSION_RATE_DEN
    ELSE Usd(CRYPTO_MIN_COMMISSION)

\* ------------------------------------------------------------- simulator
\* The bounds of random.uniform in _calculate_slippage, in basis points.
_calculate_slippage_lo(order_value) == MIN_SLIPPAGE_BPS

_calculate_slippage_hi(order_value) ==
    IF order_value < Usd(SLIPPAGE_SIZE_THRESHOLD)
    THEN MIN_SLIPPAGE_BPS * 2
    ELSE MIN_SLIPPAGE_BPS
         + ((MAX_SLIPPAGE_BPS - MIN_SLIPPAGE_BPS)
              * (Min(order_value, Usd(MAX_ORDER_VALUE_USD)) \div Usd(1)))
           \div MAX_ORDER_VALUE_USD

\* The random draws of one simulate_order_execution call: reject is
\* random.random() < BASE_REJECTION_PROBABILITY, bps the slippage drawn,
\* partial is random.random() < PARTIAL_FILL_PROBABILITY, pct the fill
\* percentage drawn.  fault is where, if anywhere, the call raises after
\* the simulation: in the db.commit() of a rejection (line 199), or in the
\* settlement.
NoDraw == [reject |-> TRUE, bps |-> 0, partial |-> FALSE, pct |-> 0,
           fault |-> "none"]

DrawsFor(order_value) ==
    {NoDraw, [NoDraw EXCEPT !.fault = "before_commit"]}
    \cup { [reject |-> FALSE, bps |-> b, partial |-> FALSE, pct |-> 0, fault |-> f] :
             b \in _calculate_slippage_lo(order_value) .. _calculate_slippage_hi(order_value),
             f \in Faults }
    \cup { [reject |-> FALSE, bps |-> b, partial |-> TRUE, pct |-> p, fault |-> f] :
             b \in _calculate_slippage_lo(order_value) .. _calculate_slippage_hi(order_value),
             p \in IF order_value > Usd(PARTIAL_FILL_THRESHOLD_USD)
                   THEN {MIN_PARTIAL_FILL_PCT, MAX_PARTIAL_FILL_PCT} ELSE {},
             f \in Faults }

\* Step 1: the liquidity constraint.
ExceedsLiquidity_AtCap(order_value) == order_value >= Usd(MAX_ORDER_VALUE_USD)

ExceedsLiquidity(order_value) == order_value > Usd(MAX_ORDER_VALUE_USD)

\* Step 4: the price after slippage of bps basis points.
SlippedPrice_Favourable(side, current_price, bps) ==
    IF side = "BUY"
    THEN current_price
         - ((current_price * bps) + BpsBase + bps - 1) \div (BpsBase + bps)
    ELSE current_price + (current_price * bps) \div BpsBase

SlippedPrice(side, current_price, bps) ==
    IF side = "BUY"
    \* current_price * slippage_multiplier
    THEN current_price + (current_price * bps) \div BpsBase
    \* current_price / slippage_multiplier, rounded down
    ELSE current_price
         - ((current_price * bps) + BpsBase + bps - 1) \div (BpsBase + bps)

\* Step 5: whether a partial fill is drawn at all, and what it fills.
MayPartialFill_AtThreshold(order_value) ==
    order_value >= Usd(PARTIAL_FILL_THRESHOLD_USD)

MayPartialFill(order_value) == order_value > Usd(PARTIAL_FILL_THRESHOLD_USD)

PartialQuantity_Full(quantity, pct) == quantity

PartialQuantity(quantity, pct) == (quantity * pct) \div 100

simulate_order_execution(side, quantity, current_price, draw) ==
    LET order_value == current_price * quantity
        execution_price == SlippedPrice(side, current_price, draw.bps)
        partial == MayPartialFill(order_value) /\ draw.partial
        diff == IF execution_price >= current_price
                THEN execution_price - current_price
                ELSE current_price - execution_price
    IN  IF ExceedsLiquidity(order_value)
        THEN [status |-> "REJECTED", execution_price |-> 0, filled_quantity |-> 0,
              slippage |-> 0, rejection_reason |-> "exceeds maximum"]
        ELSE IF draw.reject
        THEN [status |-> "REJECTED", execution_price |-> 0, filled_quantity |-> 0,
              slippage |-> 0, rejection_reason |-> "simulated"]
        ELSE [status |-> IF partial THEN "PARTIALLY_FILLED" ELSE "FILLED",
              execution_price |-> execution_price,
              filled_quantity |-> IF partial
                                  THEN PartialQuantity(quantity, draw.pct)
                                  ELSE quantity,
              \* slippage_pct, in millionths
              slippage |-> (diff * 1000000) \div current_price,
              rejection_reason |-> ""]


\* ----------------------------------------------------------------- rows
NewOrder_Prefilled(side, order_type, price, quantity) ==
    [side |-> side, order_type |-> order_type, price |-> price,
     quantity |-> quantity, filled_quantity |-> quantity, status |-> "PENDING",
     slippage |-> 0, rejection_reason |-> ""]

NewOrder(side, order_type, price, quantity) ==
    [side |-> side, order_type |-> order_type, price |-> price,
     quantity |-> quantity, filled_quantity |-> 0, status |-> "PENDING",
     slippage |-> 0, rejection_reason |-> ""]

NewPosition == [quantity |-> 0, available_quantity |-> 0, avg_cost |-> 0]

Call(op, id, ret, why) ==
    [op |-> op, id |-> id, ret |-> ret, why |-> why, executed |-> 0, checked |-> 0]

Idle == [pc |-> "idle", id |-> 0, cash |-> 0, frozen |-> 0,
         execution_price |-> 0, filled_quantity |-> 0, slippage |-> 0,
         fault |-> "none", pos |-> [found |-> FALSE, row |-> NewPosition]]

\* Each session makes one check_and_execute_order call.
Returned == [Idle EXCEPT !.pc = "returned"]

Sessions == {1, 2}

\* The rows one call works on: the account and the tables.
Rows == [current_cash |-> current_cash, frozen_cash |-> frozen_cash,
         positions |-> positions, orders |-> orders, trades |-> trades,
         released |-> released, deferred |-> deferred]

\* ------------------------------------------------------------ settlement
\* The amount _release_frozen_on_fill takes off frozen_cash (BUY only).
_release_frozen_on_fill(order, execution_price, commission) ==
    IF order.side = "BUY"
    THEN execution_price * order.quantity + commission
    ELSE 0

\* The re-checks of lines 266 and 316.
SufficientCash_Unchecked(cash, cash_needed) == TRUE

SufficientCash(cash, cash_needed) == cash >= cash_needed

SufficientPosition_ExistsOnly(has_position, position, quantity) == has_position

SufficientPosition(has_position, position, quantity) ==
    has_position /\ position.available_quantity >= quantity

\* Lines 271 and 325-326.
DebitCash(cash, cash_needed) == cash - cash_needed

CreditCash_NoFee(cash, notional, commission) == cash + notional

CreditCash(cash, notional, commission) == cash + (notional - commission)

\* Lines 294-302: the average cost of the position after a BUY fill.
new_avg_cost_Latest(old_qty, old_cost, notional, new_qty, execution_price) ==
    execution_price

new_avg_cost(old_qty, old_cost, notional, new_qty, execution_price) ==
    IF old_qty = 0 THEN execution_price
    ELSE (old_cost * old_qty + notional) \div new_qty

\* Lines 329-340: the Trade row of a fill.
NewTrade_OrderQuantity(id, order, execution_price, quantity, commission) ==
    [order_id |-> id, side |-> order.side, price |-> execution_price,
     quantity |-> order.quantity, commission |-> commission]

NewTrade(id, order, execution_price, quantity, commission) ==
    [order_id |-> id, side |-> order.side, price |-> execution_price,
     quantity |-> quantity, commission |-> commission]

\* order.status after a fill of `quantity`.
FillStatus(order, quantity) ==
    IF quantity >= order.quantity THEN "FILLED" ELSE "PARTIALLY_FILLED"

\* Lines 274-278 and 310-314: what query(Position)...first() finds.
first_position(S) ==
    [found |-> Len(S.positions) > 0,
     row |-> IF Len(S.positions) > 0 THEN S.positions[1] ELSE NewPosition]

\* _execute_order on order `id` of rows S, the Account object holding
\* acct.cash and acct.frozen, the Position object pos.row that its query
\* found (pos.found).  Returns the rows it leaves, what it returned
\* and why.  fault: where the call raises ("before_commit": anywhere up to
\* and including db.commit(), which db.rollback() undoes; "after_commit":
\* between db.commit() and the guarded broadcast, lines 360-365).
_execute_order_from(S, acct, pos, id, execution_price, filled_quantity, slippage, fault) ==
    LET order == S.orders[id]
        quantity == filled_quantity
        notional == execution_price * quantity
        commission == _calc_commission(notional)
        cash_needed == notional + commission
        has_position == pos.found
        position == pos.row
        old_qty == position.quantity
        new_qty == old_qty + quantity
        bought == [quantity |-> new_qty,
                   available_quantity |-> position.available_quantity + quantity,
                   avg_cost |-> new_avg_cost(old_qty, position.avg_cost,
                                             notional, new_qty, execution_price)]
        sold == [position EXCEPT !.quantity = @ - quantity,
                                 !.available_quantity = @ - quantity]
        release == _release_frozen_on_fill(order, execution_price, commission)
        trade == NewTrade(id, order, execution_price, quantity, commission)
        new_cash == IF order.side = "BUY" THEN DebitCash(acct.cash, cash_needed)
                    ELSE CreditCash(acct.cash, notional, commission)
        new_frozen == IF order.side = "BUY" THEN Max(acct.frozen - release, 0)
                      ELSE acct.frozen
        \* db.commit() writes the attributes whose value the call changed
        done == [S EXCEPT
                   !.current_cash = IF new_cash = acct.cash THEN @ ELSE new_cash,
                   !.frozen_cash = IF new_frozen = acct.frozen THEN @ ELSE new_frozen,
                   !.positions = IF order.side = "BUY"
                                 THEN IF has_position
                                      THEN [@ EXCEPT ![1] = bought]
                                      ELSE Append(@, bought)
                                 ELSE [@ EXCEPT ![1] = sold],
                   !.trades = Append(@, trade),
                   !.released = @ + release,
                   !.orders[id].filled_quantity = quantity,
                   !.orders[id].status = FillStatus(order, quantity),
                   !.orders[id].slippage = slippage]
        short == [S EXCEPT !.deferred = @ \cup {id}]
    IN  IF order.side = "BUY" /\ ~SufficientCash(acct.cash, cash_needed)
        THEN [S |-> short, ret |-> FALSE, why |-> "insufficient cash"]
        ELSE IF order.side # "BUY"
                /\ ~SufficientPosition(has_position, position, quantity)
        THEN [S |-> short, ret |-> FALSE, why |-> "insufficient position"]
        ELSE IF fault = "before_commit"
        THEN [S |-> S, ret |-> FALSE, why |-> "rolled back"]
        ELSE IF fault = "after_commit"
        THEN [S |-> done, ret |-> FALSE, why |-> "raised after commit"]
        ELSE [S |-> done, ret |-> TRUE, why |-> "executed"]

\* The call as one step: the Position is queried and written in it.
_execute_order(S, acct, id, execution_price, filled_quantity, slippage, fault) ==
    _execute_order_from(S, acct, first_position(S), id, execution_price,
                        filled_quantity, slippage, fault)

\* ------------------------------------------------------- matching engine
\* The status guards of check_and_execute_order and cancel_order.
IsPending_OrPartial(order) == order.status \in {"PENDING", "PARTIALLY_FILLED"}

IsPending(order) == order.status = "PENDING"

CanCancel_NotFilled(order) == order.status \notin {"FILLED", "PARTIALLY_FILLED"}

CanCancel(order) == order.status = "PENDING"

should_execute_Strict(order, current_price) ==
    IF order.order_type = "MARKET" THEN TRUE
    ELSE IF order.order_type = "LIMIT"
    THEN IF order.side = "BUY" THEN order.price > current_price
         ELSE order.price < current_price
    ELSE FALSE

should_execute(order, current_price) ==
    IF order.order_type = "MARKET" THEN TRUE
    ELSE IF order.order_type = "LIMIT"
    THEN IF order.side = "BUY" THEN order.price >= current_price
         ELSE order.price <= current_price
    ELSE FALSE

\* Lines 197-198: the order after the simulator rejected it.
RejectOrder_KeepFill(order, rejection_reason) ==
    [order EXCEPT !.status = "REJECTED", !.rejection_reason = rejection_reason,
                  !.filled_quantity = order.quantity]

RejectOrder(order, rejection_reason) ==
    [order EXCEPT !.status = "REJECTED", !.rejection_reason = rejection_reason]

\* check_and_execute_order on order `id` of rows S.
check_and_execute_order(S, current_price, id, draw) ==
    LET order == S.orders[id]
        sim == simulate_order_execution(order.side, order.quantity,
                                        current_price, draw)
    IN  IF ~IsPending(order)
        THEN [S |-> S, ret |-> FALSE, why |-> "not pending"]
        ELSE IF current_price = NoPrice
        THEN [S |-> S, ret |-> FALSE, why |-> "no price"]
        ELSE IF ~should_execute(order, current_price)
        THEN [S |-> S, ret |-> FALSE, why |-> "not eligible"]
        ELSE IF sim.status = "REJECTED"
        THEN IF draw.fault = "before_commit"
             \* db.commit() raises: nothing is written, line 221 returns False
             THEN [S |-> S, ret |-> FALSE, why |-> "commit failed"]
             ELSE [S |-> [S EXCEPT !.orders[id] =
                                     RejectOrder(@, sim.rejection_reason)],
                   ret |-> FALSE, why |-> "rejected"]
        ELSE _execute_order(S, [cash |-> S.current_cash, frozen |-> S.frozen_cash],
                            id, sim.execution_price, sim.filled_quantity,
                            sim.slippage, draw.fault)

\* The draws a call at this price on this order can make.
Draws(current_price, order) ==
    IF current_price = NoPrice THEN {NoDraw}
    ELSE DrawsFor(current_price * order.quantity)

\* ---------------------------------------------------------- cancellation
\* The amount _release_frozen_on_cancel takes off frozen_cash (BUY only).
_release_frozen_on_cancel(order) ==
    LET ref_price == IF order.price <= 0 THEN Usd(DEFAULT_REF_PRICE) ELSE order.price
        notional == ref_price * order.quantity
    IN  IF order.side = "BUY" THEN notional + _calc_commission(notional) ELSE 0

cancel_order(S, id) ==
    LET order == S.orders[id]
        release == _release_frozen_on_cancel(order)
    IN  IF ~CanCancel(order)
        THEN [S |-> S, ret |-> FALSE, why |-> "not pending"]
        ELSE [S |-> [S EXCEPT !.orders[id].status = "CANCELLED",
                              !.frozen_cash = IF order.side = "BUY"
                                              THEN Max(@ - release, 0) ELSE @,
                              !.released = @ + release],
              ret |-> TRUE, why |-> "cancelled"]

\* --------------------------------------------------------- order factory
\* Lines 54 and 57: the parameter validation.
InvalidQuantity_Negative(quantity) == quantity < 0

InvalidQuantity(quantity) == quantity <= 0

InvalidPrice(order_type, price) == order_type = "LIMIT" /\ price <= 0

\* Lines 62-71: the price the funds check uses.
check_price_Market(order_type, current_price, price) == current_price

check_price(order_type, current_price, price) ==
    IF order_type = "MARKET" THEN current_price ELSE price

\* Line 91: the position check of a SELL.
InsufficientPositions_Missing(has_position, position, quantity) == ~has_position

InsufficientPositions(has_position, position, quantity) ==
    ~has_position \/ position.available_quantity < quantity

create_order(S, current_price, side, order_type, price, quantity) ==
    LET notional == check_price(order_type, current_price, price) * quantity
        cash_needed == notional + _calc_commission(notional)
        has_position == Len(S.positions) > 0
        position == IF has_position THEN S.positions[1] ELSE NewPosition
    IN  IF InvalidQuantity(quantity)
        THEN [S |-> S, ret |-> FALSE, why |-> "invalid quantity"]
        ELSE IF InvalidPrice(order_type, price)
        THEN [S |-> S, ret |-> FALSE, why |-> "invalid price"]
        ELSE IF order_type = "MARKET" /\ current_price = NoPrice
        THEN [S |-> S, ret |-> FALSE, why |-> "no price"]
        ELSE IF side = "BUY" /\ S.current_cash < cash_needed
        THEN [S |-> S, ret |-> FALSE, why |-> "insufficient cash"]
        ELSE IF side # "BUY"
                /\ InsufficientPositions(has_position, position, quantity)
        THEN [S |-> S, ret |-> FALSE, why |-> "insufficient positions"]
        ELSE [S |-> [S EXCEPT !.orders = Append(@, NewOrder(side, order_type,
                                                            price, quantity))],
              ret |-> TRUE, why |-> "created"]

\* ---------------------------------------------------------- batch runner
get_pending_orders(S) ==
    LET RECURSIVE From(_)
        From(i) == IF i > Len(S.orders) THEN <<>>
                   ELSE IF S.orders[i].status = "PENDING" THEN <<i>> \o From(i + 1)
                   ELSE From(i + 1)
    IN  From(1)

\* Every outcome of the loop of process_all_pending_orders over `ids`,
\* having executed `n` orders so far.
\* The database may fail with any of the faults in `faults`.
RECURSIVE SweepIn(_, _, _, _, _)
SweepIn(S, current_price, ids, n, faults) ==
    IF ids = <<>> THEN {[S |-> S, executed |-> n]}
    ELSE UNION { LET r == check_and_execute_order(S, current_price, Head(ids), d)
                 IN  SweepIn(r.S, current_price, Tail(ids),
                             IF r.ret THEN n + 1 ELSE n, faults)
                 : d \in { x \in Draws(current_price, S.orders[Head(ids)]) :
                             x.fault \in faults } }

Sweep(S, current_price, ids, n) == SweepIn(S, current_price, ids, n, Faults)

process_all_pending_orders_In(S, current_price, faults) ==
    LET pending_orders == get_pending_orders(S)
    IN  { [S |-> r.S, executed |-> r.executed, checked |-> Len(pending_orders)]
          : r \in SweepIn(S, current_price, pending_orders, 0, faults) }

process_all_pending_orders(S, current_price) ==
    process_all_pending_orders_In(S, current_price, Faults)

\* --------------------------------------------------------------- actions
Commit(S) ==
    /\ current_cash' = S.current_cash
    /\ frozen_cash' = S.frozen_cash
    /\ positions' = S.positions
    /\ orders' = S.orders
    /\ trades' = S.trades
    /\ released' = S.released
    /\ deferred' = S.deferred

\* No simulation in progress, no Hyperliquid settings.
NoResult == [status |-> "", execution_price |-> 0, filled_quantity |-> 0,
             slippage |-> 0, rejection_reason |-> ""]

NoSim == [side |-> "", quantity |-> 0, current_price |-> 0, draw |-> NoDraw,
          result |-> NoResult]

NoCall == [target_environment |-> "", confirm_switch |-> FALSE,
           account_found |-> FALSE, op |-> ""]

\* An account never set up for Hyperliquid: no environment, no key, trading
\* not enabled, leverage columns empty (0).
NoHl == [hyperliquid_environment |-> "", testnet_key |-> FALSE,
         mainnet_key |-> FALSE, snapshots |-> <<>>, status |-> "",
         call |-> NoCall, hyperliquid_enabled |-> "false",
         max_leverage |-> 0, default_leverage |-> 0]

\* A thread that is not inside handle_price_update.
NoHandler == [pc |-> "idle", event_time |-> 0, by_price |-> FALSE, state |-> 0]

Handlers == {1, 2}

\* The strategy manager as constructed (lines 79-83), before any event.
NoStrategy ==
    /\ manager = [running |-> FALSE, refresh_thread |-> 0]
    /\ refresh_threads = <<>>
    /\ states = <<>>
    /\ strategies = 0
    /\ handlers = [h \in Handlers |-> NoHandler]
    /\ now = 0
    /\ started = <<>>
    /\ strategy_db = [enabled |-> FALSE, last_trigger_at |-> 0,
                      auto_trading_enabled |-> FALSE]

\* The sampling pool as constructed (sampling_pool.py lines 13-17).
NoPoolCall == [op |-> "none", arg |-> 0, raised |-> FALSE]

NoPool ==
    /\ pools = [exists |-> FALSE, samples |-> <<>>, maxlen |-> 0]
    /\ max_samples_per_symbol = 0
    /\ last_sample_time = 0
    /\ pool_last = NoPoolCall

\* No backfill task has been created.
NoBackfill ==
    /\ tasks = <<>>
    /\ workers = <<>>

\* No service outside the one a specification is about has been used.
Quiet ==
    /\ NoStrategy
    /\ sweep_tick = 0
    /\ NoPool
    /\ NoBackfill

TradingFrom(accounts) ==
    /\ market_price = Usd(1)
    /\ start \in accounts
    /\ current_cash = start.cash
    /\ frozen_cash = start.frozen
    /\ positions = start.positions
    /\ orders = <<>>
    /\ trades = <<>>
    /\ last = Call("none", 0, FALSE, "")
    /\ cancel_true = {}
    /\ released = 0
    /\ deferred = {}
    /\ sess = [s \in Sessions |-> Idle]

Trading == TradingFrom(AccountSet)

Init ==
    /\ Trading
    /\ sim_call = NoSim
    /\ hl = NoHl
    /\ Quiet

\* The market data source moves, or fails (get_last_price raises).
PriceTick ==
    /\ \E p \in PriceSet \cup {NoPrice} :
          /\ p # market_price
          /\ market_price' = p
    /\ last' = Call("tick", 0, FALSE, "")
    /\ UNCHANGED <<current_cash, frozen_cash, positions, orders, trades,
                   start, cancel_true, released, deferred, sess, sim_call, hl, services>>

CreateOrder ==
    \E side \in Sides, order_type \in OrderTypes,
       price \in PriceInputs, quantity \in QtyInputs :
      (order_type = "MARKET" => price = NoPrice) /\
        LET r == create_order(Rows, market_price, side, order_type, price, quantity)
        IN  /\ r.ret => Len(orders) < MaxOrders
            /\ Commit(r.S)
            /\ last' = Call("create_order", IF r.ret THEN Len(r.S.orders) ELSE 0,
                            r.ret, r.why)
            /\ UNCHANGED <<sim_call, hl, market_price, start, cancel_true, sess, services>>

TryExecute ==
    \E id \in DOMAIN orders :
      \E draw \in Draws(market_price, orders[id]) :
        LET r == check_and_execute_order(Rows, market_price, id, draw)
        IN  /\ Commit(r.S)
            /\ last' = Call("try_execute", id, r.ret, r.why)
            /\ UNCHANGED <<sim_call, hl, market_price, start, cancel_true, sess, services>>

CancelOrder ==
    \E id \in DOMAIN orders :
        LET r == cancel_order(Rows, id)
        IN  /\ Commit(r.S)
            /\ last' = Call("cancel", id, r.ret, r.why)
            /\ cancel_true' = IF r.ret THEN cancel_true \cup {id} ELSE cancel_true
            /\ UNCHANGED <<sim_call, hl, market_price, start, sess, services>>

ProcessAllPending ==
    \E r \in process_all_pending_orders(Rows, market_price) :
        /\ Commit(r.S)
        /\ last' = [op |-> "process_all_pending", id |-> 0,
                    ret |-> r.executed > 0, why |-> "",
                    executed |-> r.executed, checked |-> r.checked]
        /\ UNCHANGED <<sim_call, hl, market_price, start, cancel_true, sess, services>>

\* ------------------------------------------------- concurrent sessions
\* check_and_execute_order in session s, up to the end of the simulator's
\* latency sleep: the status guard, the price, the Account object loaded
\* (its current_cash and frozen_cash as of now) and the simulation.
BeginExecute ==
    \E s \in Sessions, id \in DOMAIN orders :
      \E draw \in Draws(market_price, orders[id]) :
        LET order == orders[id]
            sim == simulate_order_execution(order.side, order.quantity,
                                            market_price, draw)
            sleeps == /\ IsPending(order)
                      /\ market_price # NoPrice
                      /\ should_execute(order, market_price)
                      /\ sim.status # "REJECTED"
            r == check_and_execute_order(Rows, market_price, id,
                                         [draw EXCEPT !.reject = TRUE])
        IN  /\ sess[s].pc = "idle"
            /\ draw.fault = "none"
            /\ IF sleeps
               THEN /\ sess' = [sess EXCEPT ![s] =
                                  [pc |-> "settling", id |-> id,
                                   cash |-> current_cash, frozen |-> frozen_cash,
                                   execution_price |-> sim.execution_price,
                                   filled_quantity |-> sim.filled_quantity,
                                   slippage |-> sim.slippage,
                                   fault |-> draw.fault,
                                   pos |-> Idle.pos]]
                    /\ UNCHANGED <<current_cash, frozen_cash, positions, orders,
                                   trades, released, deferred, last>>
               ELSE /\ Commit(r.S)
                    /\ last' = Call("try_execute", id, r.ret, r.why)
                    /\ sess' = [sess EXCEPT ![s] = Returned]
            /\ UNCHANGED <<sim_call, hl, market_price, start, cancel_true, services>>

\* The rest of the call: _execute_order with the Account object loaded
\* before the sleep, on the tables as they are now.
FinishExecute ==
    \E s \in Sessions :
        LET c == sess[s]
            r == _execute_order(Rows, [cash |-> c.cash, frozen |-> c.frozen], c.id,
                                c.execution_price, c.filled_quantity, c.slippage,
                                c.fault)
        IN  /\ c.pc = "settling"
            /\ Commit(r.S)
            /\ last' = Call("try_execute", c.id, r.ret, r.why)
            /\ sess' = [sess EXCEPT ![s] = Returned]
            /\ UNCHANGED <<sim_call, hl, market_price, start, cancel_true, services>>

\* --------------------------------------------------- the simulator alone
\* simulate_order_execution on an order of each size class: below, at and
\* above the partial-fill threshold and the liquidity cap.
SimPrices == {Usd(1), Usd(100)}
SimQuantities == {1, 99, 100, 110, 200, 1000, 1010, 2000}

\* Every outcome of the random draws of one call.
SimDraws(order_value) ==
    { [reject |-> r, bps |-> b, partial |-> p, pct |-> c, fault |-> "none"] :
        r \in BOOLEAN,
        b \in _calculate_slippage_lo(order_value) .. _calculate_slippage_hi(order_value),
        p \in BOOLEAN,
        c \in {MIN_PARTIAL_FILL_PCT, MAX_PARTIAL_FILL_PCT} }

SimInit ==
    /\ Trading
    /\ Quiet
    /\ start.positions = <<>>
    /\ hl = NoHl
    /\ \E side \in Sides, quantity \in SimQuantities, current_price \in SimPrices :
          sim_call = [NoSim EXCEPT !.side = side, !.quantity = quantity,
                              !.current_price = current_price]

Simulate ==
    /\ sim_call.result = NoResult
    /\ \E draw \in SimDraws(sim_call.current_price * sim_call.quantity) :
          sim_call' = [sim_call EXCEPT
                    !.draw = draw,
                    !.result = simulate_order_execution(sim_call.side, sim_call.quantity,
                                                        sim_call.current_price, draw)]
    /\ UNCHANGED <<market_price, current_cash, frozen_cash, positions, orders,
                   trades, last, start, cancel_true, released, deferred, sess, hl, services>>

SimSpec == SimInit /\ [][Simulate]_vars

\* ------------------------------------- sessions, the Position query apart
\* _execute_order in session s up to its Position query (lines 274-278,
\* 310-314): the session now holds the row it found, or none.
LoadPosition ==
    \E s \in Sessions :
        /\ sess[s].pc = "settling"
        /\ sess' = [sess EXCEPT ![s].pc = "loaded",
                                ![s].pos = first_position(Rows)]
        /\ UNCHANGED <<market_price, current_cash, frozen_cash, positions, orders,
                       trades, last, start, cancel_true, released, deferred,
                       sim_call, hl, services>>

\* The rest of _execute_order: the writes and db.commit(), with the Account
\* and Position objects the session holds.
FinishLoaded ==
    \E s \in Sessions :
        LET c == sess[s]
            r == _execute_order_from(Rows, [cash |-> c.cash, frozen |-> c.frozen],
                                     c.pos, c.id, c.execution_price,
                                     c.filled_quantity, c.slippage, c.fault)
        IN  /\ c.pc = "loaded"
            /\ Commit(r.S)
            /\ last' = Call("try_execute", c.id, r.ret, r.why)
            /\ sess' = [sess EXCEPT ![s] = Returned]
            /\ UNCHANGED <<sim_call, hl, market_price, start, cancel_true, services>>

\* The account that holds no position yet.
PosInit ==
    /\ Init
    /\ positions = <<>>

PosNext ==
    \/ CreateOrder
    \/ BeginExecute
    \/ LoadPosition
    \/ FinishLoaded

PosSpec == PosInit /\ [][PosNext]_vars

\* ------------------------------------------------------- AI decisions
\* What a decision of the model can name as its operation, and as its
\* target_portion_of_balance (in percent).
AiOperations == {"buy", "sell", "close", "hold", "short"}
PortionSet == {0, 50, 100}

_estimate_buy_cash_needed(price, quantity) ==
    price * quantity + _calc_commission(price * quantity)

\* The side and quantity place_ai_driven_crypto_order derives from a
\* decision, or why it skips the decision.  Quantities are whole units.
ai_order(S, price, operation, target_portion) ==
    LET Skip(why) == [skip |-> TRUE, side |-> "", quantity |-> 0, why |-> why]
        Order(side, quantity) ==
            [skip |-> FALSE, side |-> side, quantity |-> quantity, why |-> ""]
        position == first_position(S)
        available_quantity == position.row.available_quantity
        buy_quantity == ((S.current_cash \div 100) * target_portion) \div price
        sell_quantity == (available_quantity * target_portion) \div 100
    IN  IF operation \notin {"buy", "sell", "hold", "close"}
        THEN Skip("invalid operation")
        ELSE IF operation = "hold" THEN Skip("hold")
        ELSE IF target_portion <= 0 \/ target_portion > 100
        THEN Skip("invalid target_portion")
        ELSE IF price = NoPrice THEN Skip("invalid price")
        ELSE IF operation = "buy"
        THEN IF buy_quantity <= 0 THEN Skip("quantity <= 0")
             ELSE IF S.current_cash < _estimate_buy_cash_needed(price, buy_quantity)
             THEN Skip("insufficient cash after fees")
             ELSE Order("BUY", buy_quantity)
        ELSE IF ~position.found \/ available_quantity <= 0
        THEN Skip("no position")
        ELSE IF operation = "sell"
        THEN Order("SELL", Min(sell_quantity, available_quantity))
        ELSE Order("CLOSE", available_quantity)

\* place_ai_driven_crypto_order for one account and one decision: the
\* order is created as a MARKET order, committed, and tried at once.
PlaceAiOrder ==
    /\ Len(orders) < MaxOrders
    /\ \E operation \in AiOperations, target_portion \in PortionSet :
         LET d == ai_order(Rows, market_price, operation, target_portion)
             r == create_order(Rows, market_price, d.side, "MARKET", NoPrice,
                               d.quantity)
             id == Len(r.S.orders)
         IN  IF d.skip
             THEN /\ last' = Call("ai_order", 0, FALSE, d.why)
                  /\ UNCHANGED <<db, released, deferred>>
             ELSE IF ~r.ret
             THEN /\ last' = Call("ai_order", 0, FALSE, r.why)
                  /\ UNCHANGED <<db, released, deferred>>
             ELSE \E draw \in Draws(market_price, r.S.orders[id]) :
                    LET e == check_and_execute_order(r.S, market_price, id, draw)
                    IN  /\ Commit(e.S)
                        /\ last' = Call("ai_order", id, e.ret, e.why)
    /\ UNCHANGED <<sim_call, hl, market_price, start, cancel_true, sess, services>>

\* Decisions arrive while the market price stays at its first value.
AiSpec == Init /\ [][PlaceAiOrder]_vars

\* ------------------------------------------- Hyperliquid environment
\* The number of HyperliquidPosition rows the switch looks at.
RECENT_POSITIONS_LIMIT == 20

Environments == {"testnet", "mainnet"}

\* Position snapshots of one environment, most recent first: n rows of
\* size 0, then one row of size 1.
ClosedThenOpen(environment, n) ==
    [k \in 1..(n + 1) |->
        [environment |-> environment, position_size |-> IF k <= n THEN 0 ELSE 1]]

SnapshotSet ==
    {<<>>} \cup { ClosedThenOpen(e, n) :
                    e \in Environments,
                    n \in {0, RECENT_POSITIONS_LIMIT - 1, RECENT_POSITIONS_LIMIT} }

\* The rows of the query for recent_positions: those of the environment,
\* most recent first, the first RECENT_POSITIONS_LIMIT of them.
recent_positions(snapshots, current_env) ==
    SubSeq(SelectSeq(snapshots, LAMBDA pos : pos.environment = current_env),
           1, Min(RECENT_POSITIONS_LIMIT,
                  Len(SelectSeq(snapshots, LAMBDA pos : pos.environment = current_env))))

open_positions(snapshots, current_env) ==
    SelectSeq(recent_positions(snapshots, current_env),
              LAMBDA pos : pos.position_size # 0)

HasPrivateKey_Any(h, target_environment) ==
    h.testnet_key \/ h.mainnet_key

HasPrivateKey(h, target_environment) ==
    IF target_environment = "testnet" THEN h.testnet_key ELSE h.mainnet_key

\* switch_hyperliquid_environment on account settings h: the settings it
\* leaves and its outcome ("raised" for every exception).
switch_hyperliquid_environment(h, account_found, target_environment, confirm_switch, fault) ==
    LET current_env == h.hyperliquid_environment
    IN  IF ~confirm_switch THEN [h EXCEPT !.status = "raised"]
        ELSE IF target_environment \notin Environments
        THEN [h EXCEPT !.status = "raised"]
        ELSE IF ~account_found THEN [h EXCEPT !.status = "raised"]
        ELSE IF current_env = target_environment
        THEN [h EXCEPT !.status = "no_change"]
        ELSE IF current_env # "" /\ open_positions(h.snapshots, current_env) # <<>>
        THEN [h EXCEPT !.status = "raised"]
        ELSE IF ~HasPrivateKey(h, target_environment)
        THEN [h EXCEPT !.status = "raised"]
        ELSE IF fault
        \* db.commit() raises: rolled back and raised again
        THEN [h EXCEPT !.status = "raised"]
        ELSE [h EXCEPT !.hyperliquid_environment = target_environment,
                       !.status = "success"]

SwitchEnvironment ==
    /\ \E account_found \in BOOLEAN,
          target_environment \in Environments \cup {"devnet"},
          confirm_switch \in BOOLEAN, fault \in BOOLEAN :
          hl' = [switch_hyperliquid_environment(hl, account_found,
                     target_environment, confirm_switch, fault)
                 EXCEPT !.call = [target_environment |-> target_environment,
                                  confirm_switch |-> confirm_switch,
                                  account_found |-> account_found,
                                  op |-> "switch"]]
    /\ UNCHANGED <<market_price, current_cash, frozen_cash, positions, orders,
                   trades, last, start, cancel_true, released, deferred, sess,
                   sim_call, services>>

\* An account with any settings and any of the snapshot histories.
EnvInit ==
    /\ Trading
    /\ Quiet
    /\ sim_call = NoSim
    /\ \E e \in Environments \cup {""}, t \in BOOLEAN, m \in BOOLEAN,
          snapshots \in SnapshotSet :
          hl = [NoHl EXCEPT !.hyperliquid_environment = e, !.testnet_key = t,
                            !.mainnet_key = m, !.snapshots = snapshots]

EnvSpec == EnvInit /\ [][SwitchEnvironment]_vars

\* -------------------------------------------- Hyperliquid account setup
MAX_LEVERAGE == 50

LeverageInputs == {0, 1, 3, MAX_LEVERAGE, MAX_LEVERAGE + 1}

\* Private keys as given by the caller: empty, a bare prefix, hex, not hex.
PrivateKeys == {"", "0x", "0xab", "xyz"}

\* encrypt_private_key raises on an empty key and on a key that is not hex
\* once the 0x prefix is removed; "0x" alone leaves the empty hex string,
\* which is encrypted to a non-empty text.
EncryptRaises(private_key) == private_key \in {"", "xyz"}

\* setup_hyperliquid_account on account settings h.
setup_hyperliquid_account(h, account_found, environment, private_key, max_leverage, default_leverage, fault) ==
    IF environment \notin Environments THEN [h EXCEPT !.status = "raised"]
    ELSE IF max_leverage < 1 \/ max_leverage > MAX_LEVERAGE
    THEN [h EXCEPT !.status = "raised"]
    ELSE IF default_leverage < 1 \/ default_leverage > max_leverage
    THEN [h EXCEPT !.status = "raised"]
    ELSE IF ~account_found THEN [h EXCEPT !.status = "raised"]
    ELSE IF EncryptRaises(private_key) THEN [h EXCEPT !.status = "raised"]
    ELSE IF fault
    \* db.commit() raises: rolled back and raised again
    THEN [h EXCEPT !.status = "raised"]
    ELSE [h EXCEPT !.testnet_key = IF environment = "testnet" THEN TRUE ELSE @,
                   !.mainnet_key = IF environment = "testnet" THEN @ ELSE TRUE,
                   !.hyperliquid_environment = environment,
                   !.hyperliquid_enabled = "true",
                   !.max_leverage = max_leverage,
                   !.default_leverage = default_leverage,
                   !.status = "configured"]

disable_hyperliquid_trading(h, account_found, fault) ==
    IF ~account_found THEN [h EXCEPT !.status = "raised"]
    ELSE IF h.hyperliquid_enabled # "true"
    THEN [h EXCEPT !.status = "already_disabled"]
    ELSE IF fault THEN [h EXCEPT !.status = "raised"]
    ELSE [h EXCEPT !.hyperliquid_enabled = "false", !.status = "success"]

enable_hyperliquid_trading(h, account_found, fault) ==
    IF ~account_found THEN [h EXCEPT !.status = "raised"]
    ELSE IF h.hyperliquid_enabled = "true"
    THEN [h EXCEPT !.status = "already_enabled"]
    ELSE IF h.hyperliquid_environment = "" THEN [h EXCEPT !.status = "raised"]
    ELSE IF ~HasPrivateKey(h, h.hyperliquid_environment)
    THEN [h EXCEPT !.status = "raised"]
    ELSE IF fault THEN [h EXCEPT !.status = "raised"]
    ELSE [h EXCEPT !.hyperliquid_enabled = "true", !.status = "success"]

\* The call a state records, for the three operations without a target.
CallOf(op, account_found) ==
    [NoCall EXCEPT !.op = op, !.account_found = account_found]

SetupAccount ==
    /\ \E account_found \in BOOLEAN,
          environment \in Environments \cup {"devnet"},
          private_key \in PrivateKeys,
          max_leverage \in LeverageInputs, default_leverage \in LeverageInputs,
          fault \in BOOLEAN :
          hl' = [setup_hyperliquid_account(hl, account_found, environment,
                     private_key, max_leverage, default_leverage, fault)
                 EXCEPT !.call = [CallOf("setup", account_found)
                                  EXCEPT !.target_environment = environment]]
    /\ UNCHANGED <<market_price, current_cash, frozen_cash, positions, orders,
                   trades, last, start, cancel_true, released, deferred, sess,
                   sim_call, services>>

DisableTrading ==
    /\ \E account_found \in BOOLEAN, fault \in BOOLEAN :
          hl' = [disable_hyperliquid_trading(hl, account_found, fault)
                 EXCEPT !.call = CallOf("disable", account_found)]
    /\ UNCHANGED <<market_price, current_cash, frozen_cash, positions, orders,
                   trades, last, start, cancel_true, released, deferred, sess,
                   sim_call, services>>

EnableTrading ==
    /\ \E account_found \in BOOLEAN, fault \in BOOLEAN :
          hl' = [enable_hyperliquid_trading(hl, account_found, fault)
                 EXCEPT !.call = CallOf("enable", account_found)]
    /\ UNCHANGED <<market_price, current_cash, frozen_cash, positions, orders,
                   trades, last, start, cancel_true, released, deferred, sess,
                   sim_call, services>>

\* Snapshot histories of the account: none, or one open testnet position.
HlSnapshots == {<<>>, ClosedThenOpen("testnet", 0)}

\* An account never set up.
HlInit ==
    /\ Trading
    /\ Quiet
    /\ sim_call = NoSim
    /\ \E snapshots \in HlSnapshots : hl = [NoHl EXCEPT !.snapshots = snapshots]

HlNext == SetupAccount \/ SwitchEnvironment \/ EnableTrading \/ DisableTrading

HlSpec == HlInit /\ [][HlNext]_vars

\* ------------------------------------------------- strategy manager
MaxStarts == 2
MaxLoads == 2
MaxTime == 4
MaxExecutions == 2

\* AccountStrategyConfig.trigger_interval of the one strategy, in seconds;
\* the first price event comes that long after time 0.
TRIGGER_INTERVAL == 2

\* StrategyState.should_trigger on object state: disabled never triggers,
\* otherwise the time trigger or the price trigger decides.
should_trigger(state, event_time, price_trigger) ==
    /\ state.enabled
    /\ \/ event_time - state.last_trigger_at >= TRIGGER_INTERVAL
       \/ price_trigger

\* _load_strategies: the query fails and nothing changes, or the
\* dictionary is cleared and refilled with a new StrategyState.
LoadedState ==
    [enabled |-> strategy_db.enabled,
     last_trigger_at |-> strategy_db.last_trigger_at, running |-> FALSE]

_load_strategies(ok) ==
    IF ok
    THEN /\ states' = Append(states, LoadedState)
         /\ strategies' = Len(states) + 1
    ELSE UNCHANGED <<states, strategies>>

\* Whether a load may still make an object.
CanLoad(ok) == ok => Len(states) < MaxLoads

Live(t) == refresh_threads[t].pc # "exited"

\* start(): under the manager's lock.
StartManager ==
    /\ IF manager.running
       THEN UNCHANGED <<manager, refresh_threads, states, strategies>>
       ELSE /\ Len(refresh_threads) < MaxStarts
            /\ \E ok \in BOOLEAN : CanLoad(ok) /\ _load_strategies(ok)
            /\ refresh_threads' = Append(refresh_threads,
                   [pc |-> "spawned", stale |-> FALSE, revived |-> FALSE])
            /\ manager' = [running |-> TRUE,
                           refresh_thread |-> Len(refresh_threads) + 1]
    /\ UNCHANGED <<handlers, now, started, strategy_db, other_than_strategy>>

\* stop(): running is cleared under the lock; the join of the refresh
\* thread gives up after 5 seconds of the thread's 60 second sleep.
StopManager ==
    /\ IF ~manager.running
       THEN UNCHANGED <<manager, refresh_threads>>
       ELSE /\ manager' = [manager EXCEPT !.running = FALSE]
            /\ refresh_threads' =
                 [t \in DOMAIN refresh_threads |->
                    [refresh_threads[t] EXCEPT !.stale = Live(t)]]
    /\ UNCHANGED <<states, strategies, handlers, now, started, strategy_db,
                   other_than_strategy>>

\* _refresh_strategies_loop of thread t: the loop test, or the end of a sleep.
RefreshStep ==
    \E t \in DOMAIN refresh_threads :
        /\ Live(t)
        /\ IF ~manager.running
           THEN /\ refresh_threads' = [refresh_threads EXCEPT ![t].pc = "exited"]
                /\ UNCHANGED <<states, strategies>>
           ELSE IF refresh_threads[t].pc = "spawned"
           THEN /\ refresh_threads' = [refresh_threads EXCEPT ![t].pc = "sleeping"]
                /\ UNCHANGED <<states, strategies>>
           ELSE /\ \E ok \in BOOLEAN : CanLoad(ok) /\ _load_strategies(ok)
                /\ refresh_threads' =
                     [refresh_threads EXCEPT ![t].revived = @ \/ refresh_threads[t].stale]
        /\ UNCHANGED <<manager, handlers, now, started, strategy_db, other_than_strategy>>

\* handle_price_update in thread h up to the call of _execute_strategy
\* (lines 174-177), for an event at the present time.
HandlePriceUpdate ==
    \E h \in Handlers, price_trigger \in BOOLEAN :
        /\ handlers[h].pc = "idle"
        /\ strategies # 0
        /\ should_trigger(states[strategies], now, price_trigger)
        /\ handlers' = [handlers EXCEPT ![h] =
               [pc |-> "triggered", event_time |-> now, by_price |-> price_trigger,
                state |-> 0]]
        /\ UNCHANGED <<manager, refresh_threads, states, strategies, now, started,
                       strategy_db, other_than_strategy>>

\* The running flag of object state as _execute_strategy tests and takes
\* it under state.lock.
TakeRunning(state) == ~state.running

\* _execute_strategy in thread h up to the trading call: the lookup of the
\* state, the running flag, the account's auto_trading_enabled.
EnterStrategy ==
    \E h \in Handlers :
        /\ handlers[h].pc = "triggered"
        /\ IF strategies = 0 \/ ~TakeRunning(states[strategies])
           THEN /\ handlers' = [handlers EXCEPT ![h] = NoHandler]
                /\ UNCHANGED <<states, started>>
           ELSE IF ~strategy_db.auto_trading_enabled
           \* returns through finally: running is set and cleared again
           THEN /\ handlers' = [handlers EXCEPT ![h] = NoHandler]
                /\ UNCHANGED <<states, started>>
           ELSE /\ Len(started) < MaxExecutions
                /\ states' = [states EXCEPT ![strategies].running = TRUE]
                /\ handlers' = [handlers EXCEPT ![h] =
                       [pc |-> "trading", event_time |-> handlers[h].event_time,
                        by_price |-> handlers[h].by_price, state |-> strategies]]
                /\ started' = Append(started,
                       [event_time |-> handlers[h].event_time,
                        by_price |-> handlers[h].by_price,
                        enabled |-> states[strategies].enabled])
        /\ UNCHANGED <<manager, refresh_threads, strategies, now, strategy_db,
                       other_than_strategy>>

\* The trading call returns: last_trigger_at is set on the object and in
\* the database, and finally the object's running flag is cleared.
FinishStrategy ==
    \E h \in Handlers :
        /\ handlers[h].pc = "trading"
        /\ states' = [states EXCEPT ![handlers[h].state] =
               [@ EXCEPT !.last_trigger_at = handlers[h].event_time,
                         !.running = FALSE]]
        /\ strategy_db' = [strategy_db EXCEPT
                              !.last_trigger_at = handlers[h].event_time]
        /\ handlers' = [handlers EXCEPT ![h] = NoHandler]
        /\ UNCHANGED <<manager, refresh_threads, strategies, now, started,
                       other_than_strategy>>

\* Time passes between price events.
Tick ==
    /\ now < MaxTime
    /\ now' = now + 1
    /\ UNCHANGED <<manager, refresh_threads, states, strategies, handlers,
                   started, strategy_db, other_than_strategy>>

\* A strategy row of any setting, the first event one interval after time 0.
StratInit ==
    /\ Trading
    /\ sim_call = NoSim
    /\ hl = NoHl
    /\ sweep_tick = 0
    /\ NoPool
    /\ NoBackfill
    /\ manager = [running |-> FALSE, refresh_thread |-> 0]
    /\ refresh_threads = <<>>
    /\ states = <<>>
    /\ strategies = 0
    /\ handlers = [h \in Handlers |-> NoHandler]
    /\ now = TRIGGER_INTERVAL
    /\ started = <<>>
    /\ \E enabled \in BOOLEAN, auto_trading_enabled \in BOOLEAN :
          strategy_db = [enabled |-> enabled, last_trigger_at |-> 0,
                         auto_trading_enabled |-> auto_trading_enabled]

StratNext ==
    \/ StartManager
    \/ StopManager
    \/ RefreshStep
    \/ HandlePriceUpdate
    \/ EnterStrategy
    \/ FinishStrategy
    \/ Tick

StratSpec == StratInit /\ [][StratNext]_vars

\* ------------------------------------------------- periodic sweeps
\* Accounts whose cash just covers a BUY of 1 unit at $1 with the minimum
\* commission, or that hold a position.
LiveAccounts ==
    { [cash |-> Usd(2), frozen |-> 0, positions |-> <<>>],
      [cash |-> Usd(30000), frozen |-> Usd(3),
       positions |-> <<[quantity |-> 1, available_quantity |-> 1,
                        avg_cost |-> Usd(1)]>>] }

\* One periodic call of process_all_pending_orders, the database in order.
PeriodicSweep ==
    /\ \E r \in process_all_pending_orders_In(Rows, market_price, {"none"}) :
          /\ Commit(r.S)
          /\ last' = [op |-> "process_all_pending", id |-> 0,
                      ret |-> r.executed > 0, why |-> "",
                      executed |-> r.executed, checked |-> r.checked]
    /\ sweep_tick' = 1 - sweep_tick
    /\ UNCHANGED <<sim_call, hl, market_price, start, cancel_true, sess,
                   strategy_vars, pool_vars, backfill_vars>>

LiveInit ==
    /\ TradingFrom(LiveAccounts)
    /\ sim_call = NoSim
    /\ hl = NoHl
    /\ Quiet

LiveNext ==
    \/ CreateOrder
    \/ PeriodicSweep

\* A step in which the periodic sweep runs: no other step moves sweep_tick.
SweepRuns == sweep_tick' = 1 - sweep_tick

\* Orders arrive, the sweep keeps being called, the price stays available.
LiveSpec == LiveInit /\ [][LiveNext]_vars /\ WF_sweep_tick(SweepRuns)

\* ---------------------------------------------------- sampling pool
DEFAULT_MAX_SAMPLES == 10
MaxSamples == 12

\* The depths a caller passes to set_max_samples.
DepthInputs == {-1, 0, 1, 3, DEFAULT_MAX_SAMPLES + 1}

get_max_samples ==
    IF max_samples_per_symbol = 0 THEN DEFAULT_MAX_SAMPLES
    ELSE max_samples_per_symbol

\* collections.deque(items, maxlen): filled from the left, so that the
\* last maxlen items stay.
deque_KeepOldest(items, maxlen) ==
    IF Len(items) > maxlen THEN SubSeq(items, 1, maxlen) ELSE items

deque(items, maxlen) ==
    IF Len(items) > maxlen
    THEN SubSeq(items, Len(items) - maxlen + 1, Len(items))
    ELSE items

\* add_sample at time `timestamp`: the sample is named by its timestamp.
AddSample ==
    /\ last_sample_time < MaxSamples
    /\ LET timestamp == last_sample_time + 1
           maxlen == IF pools.exists THEN pools.maxlen ELSE get_max_samples
       IN  /\ pools' = [exists |-> TRUE,
                        samples |-> deque(Append(pools.samples, timestamp), maxlen),
                        maxlen |-> maxlen]
           /\ last_sample_time' = timestamp
           /\ pool_last' = [op |-> "add_sample", arg |-> timestamp, raised |-> FALSE]
    /\ UNCHANGED <<max_samples_per_symbol, other_than_pool>>

InvalidDepth(max_samples) == max_samples < 1

SetMaxSamples ==
    /\ \E max_samples \in DepthInputs :
         IF InvalidDepth(max_samples)
         THEN /\ pool_last' = [op |-> "set_max_samples", arg |-> max_samples,
                               raised |-> TRUE]
              /\ UNCHANGED <<pools, max_samples_per_symbol>>
         ELSE /\ pool_last' = [op |-> "set_max_samples", arg |-> max_samples,
                               raised |-> FALSE]
              /\ max_samples_per_symbol' = max_samples
              /\ pools' = IF pools.exists
                          THEN [exists |-> TRUE,
                                samples |-> deque(pools.samples, max_samples),
                                maxlen |-> max_samples]
                          ELSE pools
    /\ UNCHANGED <<last_sample_time, other_than_pool>>

PoolNext ==
    \/ AddSample
    \/ SetMaxSamples

PoolSpec == Init /\ [][PoolNext]_vars

\* ------------------------------------------------- kline backfill tasks
\* The longest collection range, in hours.
MaxHours == 18

\* The number of process_task coroutines ever created.
MaxWorkers == 3

BATCH_HOURS == 6

max_concurrent_tasks == 3

\* end_time - start_time of a task, in hours.
Durations == {0, BATCH_HOURS, BATCH_HOURS + 3, MaxHours}

TaskIds == {1, 2}

\* A task_id with no KlineCollectionTask row.
MissingTask == 3

\* What can go wrong in one run of process_task between two awaits: the
\* awaited call raises an Exception, the coroutine is cancelled at the
\* await, the first db.commit() raises, the commit of "completed" raises.
StepFaults == {"none", "raise", "cancel", "commit", "complete_commit"}

\* The except block (lines 110-117) on the rows T: the status is set to
\* "failed" and committed; when that commit raises too, nothing is stored.
Failed(T, task_id, handler_fault) ==
    IF handler_fault THEN T ELSE [T EXCEPT ![task_id].status = "failed"]

\* Lines 102-106: completion of the task.
Completed(T, task_id) ==
    [T EXCEPT ![task_id].status = "completed", ![task_id].progress = 100]

\* Lines 84-87, with start_time = 0 and times in hours; int() truncates.
progress_of(current_end, time_diff) ==
    Min((current_end * 100) \div time_diff, 100)

Done(w) == [w EXCEPT !.pc = "done"]

\* process_task from its call to its first await (line 49), or to its
\* return: <<rows, coroutine>>.
Begin(T, w, fault, handler_fault) ==
    IF w.task_id \notin DOMAIN T THEN <<T, Done(w)>>
    ELSE IF T[w.task_id].status # "pending" THEN <<T, Done(w)>>
    ELSE IF fault = "commit" THEN <<Failed(T, w.task_id, handler_fault), Done(w)>>
    ELSE <<[T EXCEPT ![w.task_id].status = "running", ![w.task_id].progress = 0],
           [w EXCEPT !.pc = "initialize", !.collecting = TRUE]>>

\* From the return of kline_service.initialize() (line 49) to the first
\* collect_historical_klines (line 74), or, for an empty range, to the end.
Initialize(T, w, fault, handler_fault) ==
    IF fault = "cancel" THEN <<T, Done(w)>>
    ELSE IF fault \in {"raise", "commit"}
    THEN <<Failed(T, w.task_id, handler_fault), Done(w)>>
    ELSE IF 0 < T[w.task_id].duration
    THEN <<T, [w EXCEPT !.pc = "batch", !.current_start = 0]>>
    ELSE IF fault = "complete_commit"
    THEN <<Failed(T, w.task_id, handler_fault), Done(w)>>
    ELSE <<Completed(T, w.task_id), Done(w)>>

\* One batch: from the return of collect_historical_klines (line 74) to the
\* next one, the sleep of line 100 included, or to the end.
Batch(T, w, fault, handler_fault) ==
    LET time_diff == T[w.task_id].duration
        current_end == Min(w.current_start + BATCH_HOURS, time_diff)
        stored == [T EXCEPT ![w.task_id].progress =
                                progress_of(current_end, time_diff)]
    IN  IF fault = "cancel" THEN <<T, Done(w)>>
        ELSE IF fault \in {"raise", "commit"}
        THEN <<Failed(T, w.task_id, handler_fault), Done(w)>>
        ELSE IF current_end < time_diff
        THEN <<stored, [w EXCEPT !.current_start = current_end]>>
        ELSE IF fault = "complete_commit"
        THEN <<Failed(stored, w.task_id, handler_fault), Done(w)>>
        ELSE <<Completed(stored, w.task_id), Done(w)>>

process_task_step(T, w, fault, handler_fault) ==
    CASE w.pc = "start" -> Begin(T, w, fault, handler_fault)
      [] w.pc = "initialize" -> Initialize(T, w, fault, handler_fault)
      [] w.pc = "batch" -> Batch(T, w, fault, handler_fault)

NewWorker(task_id) ==
    [pc |-> "start", task_id |-> task_id, collecting |-> FALSE, current_start |-> 0]

\* A direct call of process_task.
CallProcessTask ==
    /\ Len(workers) < MaxWorkers
    /\ \E task_id \in TaskIds \cup {MissingTask} :
          workers' = Append(workers, NewWorker(task_id))
    /\ UNCHANGED <<tasks, other_than_backfill>>

RECURSIVE pending_tasks(_, _)
\* The ids of the first limit pending rows from row k on, oldest first.
pending_tasks(k, limit) ==
    IF k > Len(tasks) \/ limit = 0 THEN <<>>
    ELSE IF tasks[k].status = "pending"
    THEN <<k>> \o pending_tasks(k + 1, limit - 1)
    ELSE pending_tasks(k + 1, limit)

\* process_pending_tasks up to its gather: one coroutine per pending task.
ProcessPendingTasks ==
    LET ids == pending_tasks(1, max_concurrent_tasks)
    IN  /\ ids # <<>>
        /\ Len(workers) + Len(ids) <= MaxWorkers
        /\ workers' = workers \o [k \in 1..Len(ids) |-> NewWorker(ids[k])]
        /\ UNCHANGED <<tasks, other_than_backfill>>

\* The event loop runs one coroutine up to its next await.
RunWorker(w) ==
    /\ workers[w].pc # "done"
    /\ \E fault \in StepFaults, handler_fault \in BOOLEAN :
          LET r == process_task_step(tasks, workers[w], fault, handler_fault)
          IN  /\ tasks' = r[1]
              /\ workers' = [workers EXCEPT ![w] = r[2]]
    /\ UNCHANGED other_than_backfill

Run == \E w \in DOMAIN workers : RunWorker(w)

\* Two task rows: the first pending with any range, the second of one
\* batch, pending or already completed.
BackfillInit ==
    /\ Trading
    /\ sim_call = NoSim
    /\ hl = NoHl
    /\ NoStrategy
    /\ sweep_tick = 0
    /\ NoPool
    /\ workers = <<>>
    /\ \E d \in Durations, done \in BOOLEAN :
          tasks = << [status |-> "pending", progress |-> 0, duration |-> d],
                     [status |-> IF done THEN "completed" ELSE "pending",
                      progress |-> IF done THEN 100 ELSE 0,
                      duration |-> BATCH_HOURS] >>

BackfillNext == CallProcessTask \/ ProcessPendingTasks \/ Run

\* Every created coroutine is run by the event loop.
BackfillSpec == BackfillInit /\ [][BackfillNext]_vars /\ WF_backfill_vars(Run)

ConcInit ==
    /\ Init
    /\ current_cash = Usd(30000)

ConcNext ==
    \/ CreateOrder
    \/ BeginExecute
    \/ FinishExecute
    \/ CancelOrder

ConcSpec == ConcInit /\ [][ConcNext]_vars

Next ==
    \/ PriceTick
    \/ CreateOrder
    \/ TryExecute
    \/ CancelOrder
    \/ ProcessAllPending

Spec == Init /\ [][Next]_vars

\* ================================================================ claims
TradesOf(id) == {k \in DOMAIN trades : trades[k].order_id = id}

\* The trades of trades' that trades does not hold (trades is append-only).
NewTrades == {k \in DOMAIN trades' : k > Len(trades)}

Notional(t) == t.price * t.quantity

\* Cash the first k trades have moved: a BUY takes notional + commission,
\* a SELL brings notional - commission.
RECURSIVE NetCash(_)
NetCash(k) ==
    IF k = 0 THEN 0
    ELSE LET t == trades[k]
             fee == IF Notional(t) >= Usd(CRYPTO_MIN_COMMISSION) * CRYPTO_COMMISSION_RATE_DEN
                    THEN Notional(t) \div CRYPTO_COMMISSION_RATE_DEN
                    ELSE Usd(CRYPTO_MIN_COMMISSION)
         IN  NetCash(k - 1)
             + (IF t.side = "BUY" THEN 0 - (Notional(t) + fee) ELSE Notional(t) - fee)

\* Units the first k trades have moved into the position.
RECURSIVE NetQuantity(_)
NetQuantity(k) ==
    IF k = 0 THEN 0
    ELSE NetQuantity(k - 1)
         + (IF trades[k].side = "BUY" THEN trades[k].quantity
            ELSE 0 - trades[k].quantity)

StartQuantity == IF Len(start.positions) > 0 THEN start.positions[1].quantity ELSE 0

HeldQuantity == IF Len(positions) > 0 THEN positions[1].quantity ELSE 0

Terminal(order) == order.status \in {"FILLED", "PARTIALLY_FILLED", "REJECTED", "CANCELLED"}

\* C1: when try_execute and cancel race on one PENDING order exactly one
\* wins: an order for which cancel returned true ends CANCELLED and has no
\* trade.
C1_OneWinner ==
    \A id \in cancel_true :
        orders[id].status = "CANCELLED" /\ TradesOf(id) = {}

\* C2: concurrent settlements and cancellations on one account leave cash,
\* frozen cash and the position as running them one after the other would:
\* every committed fill and every release is accounted for, none is lost.
C2_SerialOutcome ==
    /\ current_cash = start.cash + NetCash(Len(trades))
    /\ frozen_cash = Max(start.frozen - released, 0)
    /\ HeldQuantity = StartQuantity + NetQuantity(Len(trades))

C4_CashNonNegative ==
    current_cash >= 0 /\ frozen_cash >= 0

\* C5: 0 <= available_quantity <= quantity for every position; every step
\* changes the held quantity by exactly the fills it records (bought minus
\* sold), so no SELL takes more than is available and nothing is clamped;
\* and a SELL settlement that finds the position missing or short returns
\* false and leaves positions and trades as they were.
C5_PositionSafe ==
    [][ /\ \A i \in DOMAIN positions' :
             /\ 0 <= positions'[i].available_quantity
             /\ positions'[i].available_quantity <= positions'[i].quantity
        /\ HeldQuantity' - HeldQuantity
             = NetQuantity(Len(trades))' - NetQuantity(Len(trades))
        /\ (last'.op = "try_execute" /\ last'.why = "insufficient position") =>
                /\ ~last'.ret
                /\ positions' = positions
                /\ trades' = trades
      ]_vars

C5_Witness ==
    /\ last.op = "try_execute"
    /\ last.why = "insufficient position"
    /\ Len(positions) > 0
    /\ positions[1].available_quantity < orders[last.id].quantity

C7_SettleAtomic ==
    [][ (last'.op = "try_execute" /\ ~last'.ret /\ last'.why # "rejected")
          => UNCHANGED db ]_vars

\* C8: a successful cancel sets the order CANCELLED and moves what it
\* releases from frozen_cash to current_cash, so their sum is unchanged
\* and frozen_cash stays >= 0; cancelling a SELL changes neither.
C8_CancelMovesCash ==
    [][ (last'.op = "cancel" /\ last'.ret) =>
          /\ orders'[last'.id].status = "CANCELLED"
          /\ frozen_cash' >= 0
          /\ frozen_cash' <= frozen_cash
          /\ current_cash' + frozen_cash' = current_cash + frozen_cash
          /\ orders[last'.id].side = "SELL" =>
                (current_cash' = current_cash /\ frozen_cash' = frozen_cash)
      ]_vars

C10_ShortfallDefers ==
    [][ last'.op = "try_execute" =>
          /\ last'.why \in {"insufficient cash", "insufficient position"} =>
                /\ ~last'.ret
                /\ orders[last'.id].status = "PENDING"
                /\ UNCHANGED db
          /\ \A k \in NewTrades :
                LET t == trades'[k]
                IN  IF t.side = "BUY"
                    THEN current_cash >= Notional(t) + t.commission
                    ELSE /\ Len(positions) > 0
                         /\ positions[1].available_quantity >= t.quantity
      ]_vars

C10_Witness ==
    \E id \in deferred : orders[id].status = "FILLED"

\* C11: a try_execute that finds no market price, or in which a database
\* call raises, returns false and leaves the order PENDING with no
\* rejection_reason and the account, positions, orders and trades as they
\* were.
C11_FailureKeepsPending ==
    [][ (/\ last'.op = "try_execute"
         /\ last'.why \in {"no price", "commit failed", "rolled back",
                           "raised after commit"}) =>
            /\ ~last'.ret
            /\ orders'[last'.id].status = "PENDING"
            /\ orders'[last'.id].rejection_reason = ""
            /\ UNCHANGED db
      ]_vars

\* The reason simulate_order_execution gives for rejecting this order.
SimulatorReasons(order, current_price) ==
    IF current_price * order.quantity > Usd(MAX_ORDER_VALUE_USD)
    THEN {"exceeds maximum"}
    ELSE {"simulated"}

\* C12: a try_execute whose simulation is REJECTED returns false and turns
\* the PENDING order REJECTED with the simulator's reason, changing nothing
\* else of the order, no cash, no position and no trade; a REJECTED order
\* has no trade and filled_quantity 0, and no later call changes it or
\* returns true for it.
C12_RejectedIsFinal ==
    [][ /\ (last'.op = "try_execute" /\ last'.why = "rejected") =>
            /\ ~last'.ret
            /\ orders[last'.id].status = "PENDING"
            /\ orders'[last'.id].rejection_reason
                 \in SimulatorReasons(orders[last'.id], market_price)
            /\ orders' = [orders EXCEPT
                            ![last'.id].status = "REJECTED",
                            ![last'.id].rejection_reason =
                                orders'[last'.id].rejection_reason]
            /\ UNCHANGED <<current_cash, frozen_cash, positions, trades>>
        /\ \A id \in DOMAIN orders' :
             orders'[id].status = "REJECTED" =>
                /\ orders'[id].filled_quantity = 0
                /\ \A k \in DOMAIN trades' : trades'[k].order_id # id
        /\ \A id \in DOMAIN orders :
             orders[id].status = "REJECTED" =>
                /\ orders'[id] = orders[id]
                /\ (last'.op = "try_execute" /\ last'.id = id) => ~last'.ret
      ]_vars

C12_Witness ==
    /\ last.op = "try_execute"
    /\ last.why = "not pending"
    /\ orders[last.id].status = "REJECTED"
    /\ orders[last.id].rejection_reason = "simulated"

\* The execution condition as the specification words it.
Eligible(order, current_price) ==
    \/ order.order_type = "MARKET"
    \/ order.order_type = "LIMIT" /\ order.side = "BUY"
         /\ order.price >= current_price
    \/ order.order_type = "LIMIT" /\ order.side = "SELL"
         /\ order.price <= current_price

\* C13: for a PENDING order and an available price, try_execute goes on to
\* the simulator exactly when the order is MARKET, or LIMIT BUY with
\* price >= current price, or LIMIT SELL with price <= current price;
\* otherwise it returns false and changes nothing.
C13_EligibleIff ==
    [][ (/\ last'.op = "try_execute"
         /\ orders[last'.id].status = "PENDING"
         /\ market_price # NoPrice) =>
            /\ (last'.why = "not eligible")
                 <=> ~Eligible(orders[last'.id], market_price)
            /\ (last'.why \in {"rejected", "commit failed", "executed",
                               "rolled back", "raised after commit",
                               "insufficient cash", "insufficient position"})
                 <=> Eligible(orders[last'.id], market_price)
            /\ last'.why = "not eligible" => (~last'.ret /\ UNCHANGED db)
      ]_vars

\* A LIMIT SELL above the market was refused.
C13_Witness ==
    /\ last.op = "try_execute"
    /\ last.why = "not eligible"
    /\ orders[last.id].order_type = "LIMIT"
    /\ orders[last.id].side = "SELL"
    /\ orders[last.id].price > market_price

\* C14: a settlement that records a fill leaves the order's filled_quantity
\* at what it was before plus the quantity of that fill, and its status
\* FILLED when that total reaches order.quantity, PARTIALLY_FILLED
\* otherwise.
C14_FillAccumulates ==
    [][ \A k \in NewTrades :
          LET id == trades'[k].order_id
          IN  /\ orders'[id].filled_quantity
                   = orders[id].filled_quantity + trades'[k].quantity
              /\ orders'[id].status
                   = IF orders'[id].filled_quantity >= orders'[id].quantity
                     THEN "FILLED" ELSE "PARTIALLY_FILLED"
      ]_vars

\* C15: after every call each FILLED or PARTIALLY_FILLED order has exactly
\* one trade, of the order's filled_quantity; each PENDING, REJECTED or
\* CANCELLED order has no trade and filled_quantity 0; and every trade that
\* existed before the call is still there, unchanged.
C15_OneTradePerFill ==
    [][ /\ \A id \in DOMAIN orders' :
             LET ts == {k \in DOMAIN trades' : trades'[k].order_id = id}
             IN  IF orders'[id].status \in {"FILLED", "PARTIALLY_FILLED"}
                 THEN /\ Cardinality(ts) = 1
                      /\ \A k \in ts :
                           trades'[k].quantity = orders'[id].filled_quantity
                 ELSE /\ ts = {}
                      /\ orders'[id].filled_quantity = 0
        /\ Len(trades') >= Len(trades)
        /\ \A k \in DOMAIN trades : trades'[k] = trades[k]
      ]_vars

\* A partial fill with its trade next to an order that ended without one.
C15_Witness ==
    /\ \E id \in DOMAIN orders :
         /\ orders[id].status = "PARTIALLY_FILLED"
         /\ \E k \in TradesOf(id) : trades[k].quantity < orders[id].quantity
    /\ \E id \in DOMAIN orders :
         /\ orders[id].status \in {"REJECTED", "CANCELLED"}
         /\ TradesOf(id) = {}

\* C16: no order has cash reserved for it (create_order freezes none), so
\* a step that records fills, BUY or SELL, leaves frozen_cash as it was.
C16_ReleaseOnlyReserved ==
    [][ NewTrades # {} => frozen_cash' = frozen_cash ]_vars

\* C17: in every reachable state, a valid BUY create_order succeeds exactly
\* when current_cash >= reference_price * quantity + commission of that
\* notional, the reference price being the market price for MARKET and the
\* limit price for LIMIT; otherwise it fails for insufficient cash and
\* writes nothing.
C17_BuyFundsCheck ==
    \A order_type \in OrderTypes, price \in PriceInputs, quantity \in QtySet :
        LET reference_price == IF order_type = "MARKET" THEN market_price
                               ELSE price
            required == reference_price * quantity
                          + _calc_commission(reference_price * quantity)
            r == create_order(Rows, market_price, "BUY", order_type, price,
                              quantity)
        IN  reference_price > 0 =>
              /\ r.ret <=> current_cash >= required
              /\ r.ret => r.S.orders = Append(orders, r.S.orders[Len(orders) + 1])
              /\ ~r.ret => (r.why = "insufficient cash" /\ r.S = Rows)

\* A create_order was refused for insufficient cash although a LIMIT BUY
\* at the other price of the inputs would have passed.
C17_Witness ==
    /\ last.op = "create_order"
    /\ last.why = "insufficient cash"
    /\ ~last.ret
    /\ \E price \in PriceSet, quantity \in QtySet :
          current_cash >= price * quantity + _calc_commission(price * quantity)

\* C18: in every reachable state, a valid SELL create_order succeeds
\* exactly when a position exists with available_quantity >= quantity;
\* otherwise it fails for insufficient positions and writes nothing.
C18_SellPositionCheck ==
    \A order_type \in OrderTypes, price \in PriceInputs, quantity \in QtySet :
        LET covered == /\ Len(positions) > 0
                       /\ positions[1].available_quantity >= quantity
            r == create_order(Rows, market_price, "SELL", order_type, price,
                              quantity)
        IN  (IF order_type = "MARKET" THEN market_price > 0 ELSE price > 0) =>
              /\ r.ret <=> covered
              /\ r.ret => r.S.orders = Append(orders, r.S.orders[Len(orders) + 1])
              /\ ~r.ret => (r.why = "insufficient positions" /\ r.S = Rows)

\* A SELL was refused although a position exists: it holds too little.
C18_Witness ==
    /\ last.op = "create_order"
    /\ last.why = "insufficient positions"
    /\ ~last.ret
    /\ Len(positions) > 0
    /\ positions[1].available_quantity > 0
    /\ positions[1].available_quantity < 200

\* C19: in every reachable state, create_order with quantity <= 0 fails
\* for the quantity, and with a valid quantity, order type LIMIT and a
\* missing or non-positive price fails for the price, whatever the cash and
\* the position are; neither writes anything.
C19_ValidationFirst ==
    \A side \in Sides, order_type \in OrderTypes,
       price \in PriceInputs, quantity \in QtyInputs :
        LET r == create_order(Rows, market_price, side, order_type, price,
                              quantity)
        IN  /\ quantity <= 0 =>
                (~r.ret /\ r.why = "invalid quantity" /\ r.S = Rows)
            /\ (quantity > 0 /\ order_type = "LIMIT" /\ price <= 0) =>
                (~r.ret /\ r.why = "invalid price" /\ r.S = Rows)
            /\ r.ret => (quantity > 0 /\ (order_type = "LIMIT" => price > 0))

\* A validation failure in a state where the cash covers no order and the
\* position nothing: the funds and position checks would have failed too.
C19_Witness ==
    /\ last.op = "create_order"
    /\ last.why \in {"invalid quantity", "invalid price"}
    /\ ~last.ret
    /\ current_cash < Usd(CRYPTO_MIN_COMMISSION)
    /\ (Len(positions) = 0 \/ positions[1].available_quantity = 0)

\* C20: a create_order leaves cash, frozen cash, positions and trades as
\* they were and, when it succeeds, appends one order that is PENDING with
\* filled_quantity 0, adding nothing when it fails; current_cash and the
\* positions change only in a step that records a fill, frozen_cash only
\* in such a step or in a successful cancel.
C20_CreateOnlyAddsOrder ==
    [][ /\ last'.op = "create_order" =>
            /\ UNCHANGED <<current_cash, frozen_cash, positions, trades>>
            /\ IF last'.ret
               THEN /\ Len(orders') = Len(orders) + 1
                    /\ SubSeq(orders', 1, Len(orders)) = orders
                    /\ last'.id = Len(orders')
                    /\ orders'[last'.id].status = "PENDING"
                    /\ orders'[last'.id].filled_quantity = 0
               ELSE orders' = orders
        /\ (current_cash' # current_cash \/ positions' # positions) =>
              NewTrades # {}
        /\ frozen_cash' # frozen_cash =>
              (NewTrades # {} \/ (last'.op = "cancel" /\ last'.ret))
      ]_vars

\* An order created after a settlement has moved the cash.
C20_Witness ==
    /\ last.op = "create_order"
    /\ last.ret
    /\ orders[last.id].status = "PENDING"
    /\ orders[last.id].filled_quantity = 0
    /\ trades # <<>>
    /\ current_cash # start.cash

\* What the account paid for what it holds while it has only bought: the
\* cost of the position it started with plus the notional of every trade.
RECURSIVE BoughtNotional(_)
BoughtNotional(k) ==
    IF k = 0
    THEN IF Len(start.positions) > 0
         THEN start.positions[1].avg_cost * start.positions[1].quantity
         ELSE 0
    ELSE BoughtNotional(k - 1) + Notional(trades[k])

\* C21: a step that records one BUY fill raises quantity and
\* available_quantity by the filled quantity and sets avg_cost to the
\* execution price when the position held nothing, else to
\* (old avg_cost * old quantity + notional) / new quantity; and while no
\* SELL has filled, avg_cost * quantity equals the sum of quantity * price
\* over the fills, to within the rounding of a pip per unit and fill.
C21_WeightedAverageCost ==
    [][ Len(trades') > Len(trades) =>
          /\ (Len(trades') = Len(trades) + 1
              /\ trades'[Len(trades')].side = "BUY") =>
                LET t == trades'[Len(trades')]
                    old == IF Len(positions) > 0 THEN positions[1]
                           ELSE NewPosition
                    new == positions'[1]
                IN  /\ new.quantity = old.quantity + t.quantity
                    /\ new.available_quantity
                         = old.available_quantity + t.quantity
                    /\ IF old.quantity = 0
                       THEN new.avg_cost = t.price
                       ELSE /\ new.avg_cost * new.quantity
                                 <= old.avg_cost * old.quantity + Notional(t)
                            /\ old.avg_cost * old.quantity + Notional(t)
                                 < (new.avg_cost + 1) * new.quantity
          /\ (\A k \in DOMAIN trades' : trades'[k].side = "BUY") =>
                LET paid == BoughtNotional(Len(trades))'
                    held == positions'[1].avg_cost * positions'[1].quantity
                IN  /\ held <= paid
                    /\ paid - held < Len(trades') * positions'[1].quantity
      ]_vars

\* Two BUY fills at different prices on one position, no SELL.
C21_Witness ==
    /\ Len(trades) = 2
    /\ \A k \in DOMAIN trades : trades[k].side = "BUY"
    /\ trades[1].price # trades[2].price
    /\ positions[1].avg_cost > Min(trades[1].price, trades[2].price)
    /\ positions[1].avg_cost < Max(trades[1].price, trades[2].price)

\* The orders of `ids` whose status, PENDING before, is a fill after.
FilledDuring(ids) ==
    {id \in ids : /\ orders[id].status = "PENDING"
                  /\ orders'[id].status \in {"FILLED", "PARTIALLY_FILLED"}}

\* C23: process_all_pending returns as total_checked the number of orders
\* that were PENDING when it started and as executed_count, between 0 and
\* total_checked, the number of those that became FILLED or
\* PARTIALLY_FILLED during the call; it changes no other order.
C23_SweepCounts ==
    [][ last'.op = "process_all_pending" =>
          LET pending == {id \in DOMAIN orders : orders[id].status = "PENDING"}
          IN  /\ last'.checked = Cardinality(pending)
              /\ 0 <= last'.executed
              /\ last'.executed <= last'.checked
              /\ last'.executed = Cardinality(FilledDuring(pending))
              /\ \A id \in DOMAIN orders \ pending : orders'[id] = orders[id]
              /\ Len(trades') - Len(trades) <= Cardinality(pending)
      ]_vars

\* C30: no trade of a LIMIT BUY is at a price above the order's limit and
\* no trade of a LIMIT SELL at a price below it.
C30_LimitPriceHonoured ==
    \A k \in DOMAIN trades :
        LET order == orders[trades[k].order_id]
        IN  order.order_type = "LIMIT" =>
              IF order.side = "BUY" THEN trades[k].price <= order.price
              ELSE trades[k].price >= order.price

\* The call of sim_call has returned; the value of its order.
Simulated == sim_call.result # NoResult

SimOrderValue == sim_call.current_price * sim_call.quantity

\* C24: the simulator rejects for liquidity every order whose value is
\* strictly above MAX_ORDER_VALUE_USD, whatever was drawn (no price and no
\* quantity is computed), and never gives that reason to an order at or
\* below it: such an order is rejected only by the random draw.
C24_LiquidityCapFirst ==
    Simulated =>
        IF SimOrderValue > Usd(MAX_ORDER_VALUE_USD)
        THEN /\ sim_call.result.status = "REJECTED"
             /\ sim_call.result.rejection_reason = "exceeds maximum"
             /\ sim_call.result.execution_price = 0
             /\ sim_call.result.filled_quantity = 0
        ELSE /\ sim_call.result.rejection_reason # "exceeds maximum"
             /\ (sim_call.result.status = "REJECTED") <=> sim_call.draw.reject

\* An order above the cap is rejected although nothing random rejected it.
C24_Witness ==
    /\ Simulated
    /\ SimOrderValue > Usd(MAX_ORDER_VALUE_USD)
    /\ ~sim_call.draw.reject
    /\ sim_call.draw.partial
    /\ sim_call.result.status = "REJECTED"

\* C25: for an order whose value is at or below PARTIAL_FILL_THRESHOLD_USD
\* the simulator returns REJECTED, or FILLED with the requested quantity,
\* whatever was drawn; never PARTIALLY_FILLED.
C25_NoPartialBelowThreshold ==
    (Simulated /\ SimOrderValue <= Usd(PARTIAL_FILL_THRESHOLD_USD)) =>
        \/ sim_call.result.status = "REJECTED"
        \/ /\ sim_call.result.status = "FILLED"
           /\ sim_call.result.filled_quantity = sim_call.quantity

\* An order exactly at the threshold for which the partial fill was drawn.
C25_Witness ==
    /\ Simulated
    /\ SimOrderValue = Usd(PARTIAL_FILL_THRESHOLD_USD)
    /\ sim_call.draw.partial
    /\ sim_call.result.status = "FILLED"

\* C26: a simulation that is not rejected prices a BUY at
\* current_price * (1 + s), above current_price, and a SELL at
\* current_price / (1 + s) (rounded down to a pip), below it, with s between
\* MIN_SLIPPAGE_BPS and MAX_SLIPPAGE_BPS basis points and at most twice
\* MIN_SLIPPAGE_BPS for an order below SLIPPAGE_SIZE_THRESHOLD; the
\* slippage reported is |execution_price - current_price| / current_price
\* (in millionths, rounded down).
C26_AdverseSlippage ==
    (Simulated /\ sim_call.result.status # "REJECTED") =>
        LET current_price == sim_call.current_price
            execution_price == sim_call.result.execution_price
            s == sim_call.draw.bps
            diff == IF sim_call.side = "BUY"
                    THEN execution_price - current_price
                    ELSE current_price - execution_price
        IN  /\ s >= MIN_SLIPPAGE_BPS
            /\ s <= MAX_SLIPPAGE_BPS
            /\ SimOrderValue < Usd(SLIPPAGE_SIZE_THRESHOLD)
                  => s <= 2 * MIN_SLIPPAGE_BPS
            /\ diff > 0
            /\ IF sim_call.side = "BUY"
               THEN diff * BpsBase = current_price * s
               ELSE /\ diff * (BpsBase + s) >= current_price * s
                    /\ (diff - 1) * (BpsBase + s) < current_price * s
            /\ sim_call.result.slippage * current_price <= diff * 1000000
            /\ diff * 1000000 < (sim_call.result.slippage + 1) * current_price

\* A large SELL priced with more slippage than a small order can get.
C26_Witness ==
    /\ Simulated
    /\ sim_call.side = "SELL"
    /\ sim_call.result.status = "FILLED"
    /\ sim_call.draw.bps > 2 * MIN_SLIPPAGE_BPS
    /\ sim_call.result.execution_price < sim_call.current_price

\* C27: a PARTIALLY_FILLED simulation fills between MIN_PARTIAL_FILL_PCT
\* and MAX_PARTIAL_FILL_PCT percent of the quantity, more than nothing and
\* less than all; a FILLED one fills the quantity; so the status the
\* settlement derives from the filled quantity is the simulator's.
C27_FillQuantityMatchesStatus ==
    Simulated =>
        LET filled_quantity == sim_call.result.filled_quantity
        IN  /\ sim_call.result.status = "PARTIALLY_FILLED" =>
                /\ 100 * filled_quantity >= MIN_PARTIAL_FILL_PCT * sim_call.quantity
                /\ 100 * filled_quantity <= MAX_PARTIAL_FILL_PCT * sim_call.quantity
                /\ 0 < filled_quantity
                /\ filled_quantity < sim_call.quantity
            /\ sim_call.result.status = "FILLED" =>
                filled_quantity = sim_call.quantity
            /\ sim_call.result.status # "REJECTED" =>
                FillStatus([quantity |-> sim_call.quantity], filled_quantity)
                  = sim_call.result.status

C27_Witness ==
    /\ Simulated
    /\ sim_call.result.status = "PARTIALLY_FILLED"
    /\ sim_call.draw.pct = MAX_PARTIAL_FILL_PCT
    /\ 100 * sim_call.result.filled_quantity
         = MAX_PARTIAL_FILL_PCT * sim_call.quantity

\* C22: there is never more than one Position row for the account and
\* symbol; a row is added only by a step that records a BUY fill, and no
\* row is ever removed, whatever quantity is left in it.
C22_OnePosition ==
    [][ /\ Len(positions') <= 1
        /\ Len(positions') >= Len(positions)
        /\ Len(positions') > Len(positions) =>
              \E k \in NewTrades : trades'[k].side = "BUY"
      ]_vars

\* C28: every order that exists has side BUY or SELL, and every step that
\* adds an order adds one that create_order's checks accept in the state
\* before the step (enough cash for a BUY, enough available quantity
\* otherwise), whether a user or an AI decision asked for it.
C28_SidesAndChecks ==
    [][ \A id \in DOMAIN orders' :
          /\ orders'[id].side \in {"BUY", "SELL"}
          /\ id \notin DOMAIN orders =>
                create_order(Rows, market_price, orders'[id].side,
                             orders'[id].order_type, orders'[id].price,
                             orders'[id].quantity).ret
      ]_vars

\* C29: a call changes the account's hyperliquid_environment only when
\* confirm_switch is True, the target is testnet or mainnet, no snapshot
\* of the current environment has a non-zero size, and a private key is
\* stored for the target; in every other case the environment is
\* unchanged and the call raises or reports no_change.
C29_SwitchGuards ==
    [][ LET c == hl'.call
            current_env == hl.hyperliquid_environment
            allowed ==
                /\ c.confirm_switch
                /\ c.target_environment \in Environments
                /\ \A k \in DOMAIN hl.snapshots :
                      hl.snapshots[k].environment = current_env =>
                          hl.snapshots[k].position_size = 0
                /\ HasPrivateKey(hl, c.target_environment)
        IN  /\ hl'.hyperliquid_environment # current_env =>
                 allowed /\ hl'.hyperliquid_environment = c.target_environment
            /\ ~allowed =>
                 /\ hl'.hyperliquid_environment = current_env
                 /\ hl'.status \in {"raised", "no_change"}
      ]_vars

\* C31: at any time at most one trading call of _execute_strategy is in
\* flight for the account, whatever threads deliver price updates and
\* whenever the strategies are loaded again.
C31_OneExecution ==
    Cardinality({h \in Handlers : handlers[h].pc = "trading"}) <= 1

\* C32: every trading call was started for an enabled strategy, and one
\* started without the price trigger has an event time at least
\* trigger_interval away from that of every call started before it.
C32_IntervalApart ==
    \A j \in DOMAIN started :
        /\ started[j].enabled
        /\ ~started[j].by_price =>
              \A i \in 1..(j - 1) :
                  \/ started[j].event_time - started[i].event_time >= TRIGGER_INTERVAL
                  \/ started[i].event_time - started[j].event_time >= TRIGGER_INTERVAL

\* C33: at most one refresh loop is live at a time, and a loop that was
\* live when stop returned never loads the strategies again.
C33_OneRefreshLoop ==
    /\ Cardinality({t \in DOMAIN refresh_threads : Live(t)}) <= 1
    /\ \A t \in DOMAIN refresh_threads : ~refresh_threads[t].revived

PendingMarket(id) ==
    IF id \in DOMAIN orders
    THEN orders[id].status = "PENDING" /\ orders[id].order_type = "MARKET"
    ELSE FALSE

LastOf(items, n) ==
    [k \in 1..n |-> items[Len(items) - n + k]]

\* C35: the pool never holds more samples than the depth configured for
\* the symbol (10 if none is); add_sample appends, and on a full pool
\* drops the oldest sample; set_max_samples to a smaller depth keeps the
\* most recent samples; set_max_samples below 1 raises and changes nothing.
C35_PoolDepth ==
    [][ LET old == pools.samples
            new == pools'.samples
            depth == get_max_samples
        IN  /\ Len(new) <= get_max_samples'
            /\ pool_last'.op = "add_sample" =>
                 new = (IF Len(old) < depth THEN old ELSE Tail(old))
                       \o <<pool_last'.arg>>
            /\ (pool_last'.op = "set_max_samples" /\ pool_last'.arg < 1) =>
                 /\ pool_last'.raised
                 /\ UNCHANGED <<pools, max_samples_per_symbol>>
            /\ (pool_last'.op = "set_max_samples" /\ pool_last'.arg >= 1) =>
                 /\ ~pool_last'.raised
                 /\ get_max_samples' = pool_last'.arg
                 /\ new = IF Len(old) > pool_last'.arg
                          THEN LastOf(old, pool_last'.arg) ELSE old
      ]_vars

\* A pool of depth 3 is full, has taken the last sample and holds only
\* the three most recent ones.
C35_Witness ==
    /\ pool_last.op = "add_sample"
    /\ max_samples_per_symbol = 3
    /\ Len(pools.samples) = 3
    /\ pools.samples[1] = last_sample_time - 2
    /\ last_sample_time = MaxSamples
\* C36: whatever setup, switch, enable and disable calls were made, an
\* account with hyperliquid_enabled = "true" is on testnet or mainnet, has
\* a private key stored for that environment, and has
\* 1 <= default_leverage <= max_leverage <= 50; and a disable call leaves
\* both stored keys as they were.
EnabledIsConfigured ==
    hl.hyperliquid_enabled = "true" =>
        /\ hl.hyperliquid_environment \in Environments
        /\ IF hl.hyperliquid_environment = "testnet"
           THEN hl.testnet_key ELSE hl.mainnet_key
        /\ 1 <= hl.default_leverage
        /\ hl.default_leverage <= hl.max_leverage
        /\ hl.max_leverage <= MAX_LEVERAGE

DisableKeepsKeys ==
    DisableTrading => /\ hl'.testnet_key = hl.testnet_key
                      /\ hl'.mainnet_key = hl.mainnet_key

C36_EnabledAccount == [](EnabledIsConfigured) /\ [][DisableKeepsKeys]_vars

\* Trading was enabled again, after a disable, on a mainnet account that
\* holds the keys of both environments at the highest leverage.
C36_Witness ==
    /\ hl.call.op = "enable"
    /\ hl.status = "success"
    /\ hl.hyperliquid_enabled = "true"
    /\ hl.hyperliquid_environment = "mainnet"
    /\ hl.testnet_key /\ hl.mainnet_key
    /\ hl.max_leverage = MAX_LEVERAGE

\* The stored status of a task moves only pending -> running and
\* running -> completed or failed.
StatusEdges ==
    \A id \in TaskIds :
        tasks'[id].status # tasks[id].status =>
            <<tasks[id].status, tasks'[id].status>> \in
                {<<"pending", "running">>, <<"running", "completed">>,
                 <<"running", "failed">>}

\* The first step of process_task on a task that is not pending leaves
\* every row as it is.
NotPendingNoChange ==
    \A w \in DOMAIN workers :
        (/\ workers[w].pc = "start"
         /\ workers'[w].pc = "done"
         /\ workers[w].task_id \in TaskIds
         /\ tasks[workers[w].task_id].status # "pending") => tasks' = tasks

\* Progress never decreases and stays within 0..100.
ProgressGrows ==
    \A id \in TaskIds :
        /\ tasks[id].progress <= tasks'[id].progress
        /\ tasks'[id].progress <= 100

\* No two coroutines have set the same task to running.
OneCollector ==
    \A v \in DOMAIN workers, w \in DOMAIN workers :
        (/\ workers[v].collecting /\ workers[w].collecting
         /\ workers[v].task_id = workers[w].task_id) => v = w

Running(id) == tasks[id].status = "running"

Ended(id) == tasks[id].status \in {"completed", "failed"}

\* C37: a backfill task's status moves only pending -> running ->
\* (completed | failed); process_task on a task that is not pending changes
\* nothing; a task set to running always ends completed or failed, its
\* progress never decreasing and never above 100; and among concurrent
\* process_task / process_pending_tasks invocations at most one collects a
\* given task.
C37_TaskLifecycle ==
    /\ [][StatusEdges /\ NotPendingNoChange /\ ProgressGrows]_vars
    /\ []OneCollector
    /\ \A id \in TaskIds : Running(id) ~> Ended(id)

====
